---- MODULE Spec2Model ----
(***************************************************************************)
(* Shape- and provenance-level model of models/swapModels.py: the encoder  *)
(* and its skip-connection lists, the latent splitters and assemblers, the *)
(* decoder and the SwapNet orchestrator.  Convolution blocks are opaque: a *)
(* tensor is its spatial size and the list of channel ranges it is made of *)
(* (which opaque result each channel comes from), so that slicing and      *)
(* concatenation are computed channel for channel.                         *)
(***************************************************************************)
EXTENDS Integers, Sequences, FiniteSets, TLC

VARIABLES
    net,    \* the constructed modules (Encoder, splitter/assembler, Decoder)
    heap,   \* the Python list objects holding skip connections, by reference
    pc,     \* position of the running forward pass
    fr,     \* local variables of the running forward pass
    ghost,  \* history counters: pushes, pops, decode passes
    sp      \* state of the stand-alone splitter / size_splits runs

vars == <<net, heap, pc, fr, ghost, sp>>

\* ------------------------------------------------------------------ bounds

MaxDoubleConv == 3
MaxDepth == 4
MaxDecodes == 2
MaxDim == 5
MaxParts == 3
MaxPart == 2

\* ----------------------------------------------------------------- tensors

\* A 4-D tensor [N, C, h, w]: segs lists its channels as ranges <<id, lo, n>>
\* (channels lo .. lo+n-1 of the opaque result id).
Tensor(id, c, h, w) ==
    [kind |-> "tensor", h |-> h, w |-> w,
     segs |-> IF c = 0 THEN <<>> ELSE << <<id, 0, c>> >>]

\* torch.Tensor(): the 1-D tensor of shape [0].
EMPTY_TENSOR == [kind |-> "tensor", h |-> 0, w |-> 0, segs |-> <<>>]

\* Python's None (the absent scene latent).
None == [kind |-> "none", h |-> 0, w |-> 0, segs |-> <<>>]

\* The value of an expression whose evaluation raised an exception.
Raised == [kind |-> "raised", h |-> 0, w |-> 0, segs |-> <<>>]

IsTensor(x) == x.kind = "tensor"

\* shape == (0,): what torch.cat skips.
IsLegacyEmpty(x) == IsTensor(x) /\ x.h = 0 /\ x.w = 0 /\ x.segs = <<>>

RECURSIVE SegSum(_)
SegSum(segs) == IF segs = <<>> THEN 0 ELSE Head(segs)[3] + SegSum(Tail(segs))

\* tensor.size(1)
Channels(x) == SegSum(x.segs)

RECURSIVE ChannelAtSegs(_, _)
ChannelAtSegs(segs, c) ==
    IF segs = <<>> THEN <<"none", 0>>
    ELSE IF c < Head(segs)[3] THEN <<Head(segs)[1], Head(segs)[2] + c>>
    ELSE ChannelAtSegs(Tail(segs), c - Head(segs)[3])

\* x[:, c]: which channel of which opaque result channel c (0-based) of x is.
ChannelAt(x, c) == ChannelAtSegs(x.segs, c)

\* The input key (image / target / groundtruth) of channel c of x.
SourceAt(x, c) == ChannelAt(x, c)[1][1]

\* nn.Conv2d(cin, cout, k, stride=s, padding=p) (+ BatchNorm2d(cout) + activation)
Conv2d(x, id, cin, cout, k, s, p) ==
    IF ~IsTensor(x) \/ IsLegacyEmpty(x) \/ Channels(x) # cin
          \/ x.h + 2 * p < k \/ x.w + 2 * p < k
    THEN Raised
    ELSE Tensor(id, cout, ((x.h + 2 * p - k) \div s) + 1, ((x.w + 2 * p - k) \div s) + 1)

\* nn.Upsample(scale_factor=2)
Upsample(x) ==
    IF ~IsTensor(x) \/ IsLegacyEmpty(x) THEN Raised
    ELSE [x EXCEPT !.h = 2 * x.h, !.w = 2 * x.w]

\* torch.cat((x, y), dim=1)
channel_concat(x, y) ==
    IF ~IsTensor(x) \/ ~IsTensor(y) THEN Raised
    ELSE IF IsLegacyEmpty(y) THEN x
    ELSE IF IsLegacyEmpty(x) THEN y
    ELSE IF x.h # y.h \/ x.w # y.w THEN Raised
    ELSE [kind |-> "tensor", h |-> x.h, w |-> x.w, segs |-> x.segs \o y.segs]

RECURSIVE NarrowSegs(_, _, _)
NarrowSegs(segs, start, length) ==
    IF length = 0 \/ segs = <<>> THEN <<>>
    ELSE LET s == Head(segs)
         IN IF start >= s[3] THEN NarrowSegs(Tail(segs), start - s[3], length)
            ELSE LET take == IF length < s[3] - start THEN length ELSE s[3] - start
                 IN << <<s[1], s[2] + start, take>> >>
                        \o NarrowSegs(Tail(segs), 0, length - take)

\* tensor.narrow(1, start, length)
narrow(x, start, length) ==
    IF ~IsTensor(x) \/ IsLegacyEmpty(x) \/ start < 0 \/ length < 0
          \/ start + length > Channels(x)
    THEN Raised
    ELSE [x EXCEPT !.segs = NarrowSegs(x.segs, start, length)]

\* An input image [N, 3, h, w].
Image(src, h, w) == Tensor(<<src, "input", 0>>, 3, h, w)

\* len(range(n)): the number of iterations of `for i in range(n)`.
RangeLen(n) == IF n < 0 THEN 0 ELSE n

RECURSIVE Pow2(_)
Pow2(i) == IF i <= 0 THEN 1 ELSE 2 * Pow2(i - 1)

\* ----------------------------------------------------------------- encoder

\* ImageEncoding.forward with conv2 built without stride=2.
ImageEncoding_stride1(image, src) ==
    LET x == Conv2d(image, <<src, "image_encoder.conv1", 0>>, 3, 32 - 3, 7, 1, 3)
        encoded_image == channel_concat(x, image)
    IN [skip_connections |-> <<encoded_image>>,
        out |-> Conv2d(encoded_image, <<src, "image_encoder.conv2", 0>>, 32, 64, 3, 1, 1)]

\* ImageEncoding.forward, with in_channels=3, enc_channels=32, out_channels=64.
ImageEncoding_forward(image, src) ==
    LET x == Conv2d(image, <<src, "image_encoder.conv1", 0>>, 3, 32 - 3, 7, 1, 3)
        encoded_image == channel_concat(x, image)
    IN [skip_connections |-> <<encoded_image>>,
        out |-> Conv2d(encoded_image, <<src, "image_encoder.conv2", 0>>, 32, 64, 3, 2, 1)]

\* EncDoubleConv.forward without the second append.
EncDoubleConv_single_push(layer, i, x, src) ==
    LET x1 == Conv2d(x, <<src, "double_conv.conv1", i>>,
                     layer.in_channels, layer.in_channels, 3, 1, 1)
    IN [skip_connections |-> <<x>>,
        out |-> Conv2d(x1, <<src, "double_conv.conv2", i>>,
                       layer.in_channels, layer.out_channels, 3, 2, 1)]

\* EncDoubleConv.forward of the layer built with (in_channels, out_channels).
EncDoubleConv_forward(layer, i, x, src) ==
    LET x1 == Conv2d(x, <<src, "double_conv.conv1", i>>,
                     layer.in_channels, layer.in_channels, 3, 1, 1)
    IN [skip_connections |-> <<x, x1>>,
        out |-> Conv2d(x1, <<src, "double_conv.conv2", i>>,
                       layer.in_channels, layer.out_channels, 3, 2, 1)]

RECURSIVE EncBottleneckLoop(_, _, _, _, _)
EncBottleneckLoop(bottleneck, k, x, acc, src) ==
    IF k > bottleneck.n_convolutions \/ ~IsTensor(x)
    THEN [skip_connections |-> acc, out |-> x]
    ELSE EncBottleneckLoop(bottleneck, k + 1,
             Conv2d(x, <<src, "bottleneck", k>>,
                    bottleneck.in_channels, bottleneck.in_channels, 3, 1, 1),
             Append(acc, x), src)

\* EncBottleneckConv.forward: one push before each of the depth-1 convolutions.
EncBottleneckConv_forward(bottleneck, x, src) ==
    EncBottleneckLoop(bottleneck, 1, x, <<>>, src)

\* Encoder.__init__
Encoder__init__(n_double_conv, bottleneck_depth, disabled_skip_connections) ==
    [n_double_conv |-> n_double_conv,
     bottleneck_depth |-> bottleneck_depth,
     disabled_skip_connections |-> disabled_skip_connections,
     double_convolutions |->
         [j \in 1..RangeLen(n_double_conv) |->
             [in_channels |-> 64 * Pow2(j - 1), out_channels |-> 64 * Pow2(j)]],
     bottleneck |->
         [in_channels |-> 512,
          n_convolutions |-> IF bottleneck_depth > 1 THEN bottleneck_depth - 1 ELSE 0],
     n_skip_connections |-> 1 + n_double_conv * 2 + (bottleneck_depth - 1),
     skip_connections |-> 1]

RECURSIVE EncDoubleConvLoop(_, _, _, _, _)
EncDoubleConvLoop(enc, j, x, acc, src) ==
    IF j > Len(enc.double_convolutions) THEN [skip_connections |-> acc, out |-> x]
    ELSE LET r == EncDoubleConv_forward(enc.double_convolutions[j], j - 1, x, src)
         IN IF ~IsTensor(r.out) THEN [skip_connections |-> acc, out |-> Raised]
            ELSE EncDoubleConvLoop(enc, j + 1, r.out, acc \o r.skip_connections, src)

\* The body of Encoder.forward after the reset: the latent (or Raised) and the
\* entries appended to self.skip_connections before the pass ended.
Encoder_forward_body(enc, image, src) ==
    LET ie == ImageEncoding_forward(image, src)
    IN IF ~IsTensor(ie.out) THEN [skip_connections |-> <<>>, out |-> Raised]
       ELSE LET dc == EncDoubleConvLoop(enc, 1, ie.out, ie.skip_connections, src)
            IN IF ~IsTensor(dc.out) THEN dc
               ELSE LET b == EncBottleneckConv_forward(enc.bottleneck, dc.out, src)
                    IN IF ~IsTensor(b.out)
                       THEN [skip_connections |-> dc.skip_connections, out |-> Raised]
                       ELSE [skip_connections |-> dc.skip_connections \o b.skip_connections,
                             out |-> b.out]

\* A reset that empties the existing list object instead of binding a new one.
reset_in_place(enc, h) ==
    [enc |-> enc, heap |-> [h EXCEPT ![enc.skip_connections] = <<>>]]

\* SkipConnectionProvider._reset_skip_connections: binds a NEW empty list.
_reset_skip_connections(enc, h) ==
    [enc |-> [enc EXCEPT !.skip_connections = Len(h) + 1], heap |-> Append(h, <<>>)]

\* Encoder.forward: [enc, heap, out].
Encoder_forward(enc, h, image, src) ==
    LET r == _reset_skip_connections(enc, h)
        b == Encoder_forward_body(r.enc, image, src)
    IN [enc |-> r.enc,
        heap |-> [r.heap EXCEPT ![r.enc.skip_connections] = b.skip_connections],
        out |-> b.out]

\* A get_skip_connections that deletes the disabled entries from the list.
disable_by_removal(lst, disabled, k) ==
    [ok |-> TRUE,
     list |-> LET keep == {m \in 1..Len(lst) :
                              \A d \in 1..Len(disabled) : disabled[d] # m - 1}
              IN [m \in 1..Cardinality(keep) |->
                     lst[CHOOSE q \in keep : Cardinality({r \in keep : r < q}) = m - 1]]]

\* A get_skip_connections that skips the indices the list does not have.
disable_in_range_only(lst, disabled, k) ==
    [ok |-> TRUE,
     list |-> [m \in 1..Len(lst) |->
                  IF \E d \in 1..Len(disabled) : disabled[d] = m - 1
                  THEN EMPTY_TENSOR ELSE lst[m]]]

\* Python list item assignment lst[i] = v, with negative indices.
RECURSIVE DisableLoop(_, _, _)
DisableLoop(lst, disabled, k) ==
    IF k > Len(disabled) THEN [ok |-> TRUE, list |-> lst]
    ELSE LET i == disabled[k]
             n == Len(lst)
         IN IF i >= n \/ i < 0 - n THEN [ok |-> FALSE, list |-> lst]
            ELSE DisableLoop([lst EXCEPT ![(IF i < 0 THEN n + i ELSE i) + 1] = EMPTY_TENSOR],
                             disabled, k + 1)

\* Encoder.get_skip_connections: the list object itself, disabled entries replaced.
Encoder_get_skip_connections(enc, h) ==
    LET r == DisableLoop(h[enc.skip_connections], enc.disabled_skip_connections, 1)
    IN [ok |-> r.ok, ref |-> enc.skip_connections,
        heap |-> [h EXCEPT ![enc.skip_connections] = r.list]]

\* Encoder.get_number_of_possible_skip_connections
get_number_of_possible_skip_connections(enc) == enc.n_skip_connections

\* --------------------------------------------------- splitters / assemblers

RECURSIVE SumSizes(_, _)
\* sum of the first j entries of split_sizes (torch.cumsum)
SumSizes(split_sizes, j) ==
    IF j <= 0 THEN 0 ELSE split_sizes[j] + SumSizes(split_sizes, j - 1)

\* A size check that raises only when the sizes exceed dim_size.
size_check_exceeds(dim_size, split_sizes) ==
    dim_size >= SumSizes(split_sizes, Len(split_sizes))

\* The size check of size_splits: raise KeyError unless the sizes sum to dim_size.
size_check(dim_size, split_sizes) ==
    dim_size = SumSizes(split_sizes, Len(split_sizes))

\* size_splits(tensor, split_sizes, dim=1): ok = FALSE is the KeyError.
size_splits(tensor, split_sizes) ==
    IF ~size_check(Channels(tensor), split_sizes)
    THEN [ok |-> FALSE, splits |-> <<>>]
    ELSE [ok |-> TRUE,
          splits |-> [j \in 1..Len(split_sizes) |->
                         narrow(tensor, SumSizes(split_sizes, j - 1), split_sizes[j])]]

\* AnOtherSwapNetSplitter.forward taking the light from the last 3 channels.
splitter_light_last(latent) ==
    LET r == size_splits(latent, <<509, 3>>)
    IN IF ~r.ok THEN [ok |-> FALSE, scene |-> Raised, light |-> Raised]
       ELSE [ok |-> TRUE, scene |-> r.splits[1], light |-> r.splits[2]]

\* AnOtherSwapNetSplitter.forward: returns (scene_latent, light_latent).
AnOtherSwapNetSplitter_forward(latent) ==
    LET r == size_splits(latent, <<3, 509>>)
    IN IF ~r.ok THEN [ok |-> FALSE, scene |-> Raised, light |-> Raised]
       ELSE [ok |-> TRUE, scene |-> r.splits[2], light |-> r.splits[1]]

\* An assembler concatenating in (scene, light) order.
assembler_scene_first(scene_latent, light_latent) ==
    channel_concat(scene_latent, light_latent)

\* AnOtherSwapNetAssembler.forward
AnOtherSwapNetAssembler_forward(scene_latent, light_latent) ==
    channel_concat(light_latent, scene_latent)

\* The input key of the opaque result a tensor starts with.
SrcOf(x) == IF x.segs = <<>> THEN "none" ELSE x.segs[1][1][1]

\* WeightedPooling.forward (in_channels = 512 = envmap_h * envmap_w)
WeightedPooling_forward(x) ==
    LET c == Conv2d(x, <<SrcOf(x), "weighted_pool.conv", 0>>, 512, 4 * 512, 3, 1, 1)
        channels == Channels(c)
        split_point == 3 * (channels \div 4)
    IN IF ~IsTensor(c) THEN Raised
       ELSE Tensor(<<SrcOf(x), "weighted_pool", 0>>, split_point, 1, 1)

\* Tiling.forward (size=16, in_channels=1536, out_channels=512)
Tiling_forward(x) ==
    IF ~IsTensor(x) THEN Raised
    ELSE Conv2d([x EXCEPT !.h = 16 * x.h, !.w = 16 * x.w],
                <<SrcOf(x), "tile.encode", 0>>, 1536, 512, 3, 1, 1)

\* IlluminationSwapNetSplitter.forward: the scene latent is None.
IlluminationSwapNetSplitter_forward(latent) ==
    LET pred_env_map == WeightedPooling_forward(latent)
    IN [ok |-> IsTensor(pred_env_map), scene |-> None, light |-> pred_env_map]

\* IlluminationSwapNetAssembler.forward: scene_latent is not read.
IlluminationSwapNetAssembler_forward(scene_latent, light_latent) ==
    Tiling_forward(light_latent)

\* self.split(latent) of a SwapNet built with the given splitter.
Split(splitter, latent) ==
    IF splitter = "AnOtherSwapNetSplitter" THEN AnOtherSwapNetSplitter_forward(latent)
    ELSE IlluminationSwapNetSplitter_forward(latent)

\* self.assemble(scene, light) of a SwapNet built with the given assembler.
Assemble(assembler, scene_latent, light_latent) ==
    IF assembler = "AnOtherSwapNetAssembler"
    THEN AnOtherSwapNetAssembler_forward(scene_latent, light_latent)
    ELSE IlluminationSwapNetAssembler_forward(scene_latent, light_latent)

\* ----------------------------------------------------------------- decoder

\* SkipConnectionReceiver.__init__: disabled_skip_connections - start
SkipConnectionReceiver__init__(disabled_skip_connections, start) ==
    [i \in 1..Len(disabled_skip_connections) |-> disabled_skip_connections[i] - start]

\* channels_in_layer ignoring the disabled list.
channels_always_with_skip(disabled, layer_number, layer_channels, skip_connection_channels) ==
    layer_channels + skip_connection_channels

\* SkipConnectionReceiver.channels_in_layer
channels_in_layer(disabled, layer_number, layer_channels, skip_connection_channels) ==
    IF \E i \in 1..Len(disabled) : disabled[i] = layer_number
    THEN layer_channels
    ELSE layer_channels + skip_connection_channels

Layer(name, idx, pop, up, cin, cout, k) ==
    [name |-> name, idx |-> idx, pop |-> pop, up |-> up, cin |-> cin, cout |-> cout, k |-> k]

\* DecBottleneckConv.__init__ (in_channels = 512, envmap 16 x 32)
DecBottleneckConv__init__(in_channels, depth, disabled_skip_connections) ==
    LET d == SkipConnectionReceiver__init__(disabled_skip_connections, 0)
        half_in_channels == in_channels \div 2
    IN [ok |-> depth >= 2 /\ in_channels = 16 * 32,
        depth |-> depth,
        encode |-> Layer("bottleneck.encode", 0, FALSE, FALSE, in_channels, half_in_channels, 3),
        initial_conv |-> Layer("bottleneck.initial_conv", 0, TRUE, FALSE,
                               channels_in_layer(d, 0, half_in_channels, in_channels),
                               in_channels, 3),
        convs |-> [i \in 1..RangeLen(depth - 3) |->
                      Layer("bottleneck.convs", i - 1, TRUE, FALSE,
                            channels_in_layer(d, i, in_channels, in_channels),
                            in_channels, 3)],
        out_conv |-> Layer("bottleneck.out_conv", 0, TRUE, TRUE,
                           channels_in_layer(d, depth - 2, in_channels, in_channels),
                           half_in_channels, 3)]

\* DecDoubleConv.__init__
DecDoubleConv__init__(i, in_channels, out_channels, disabled_skip_connections, start) ==
    LET d == SkipConnectionReceiver__init__(disabled_skip_connections, start)
    IN [conv1 |-> Layer("double_conv.conv1", i, TRUE, FALSE,
                        channels_in_layer(d, 0, in_channels, in_channels), in_channels, 3),
        conv2 |-> Layer("double_conv.conv2", i, TRUE, TRUE,
                        channels_in_layer(d, 1, in_channels, in_channels), out_channels, 3)]

\* Output.__init__ (in_channels = 32, out_channels = 3)
Output__init__(kernel_size, disabled_skip_connections, start) ==
    LET d == SkipConnectionReceiver__init__(disabled_skip_connections, start)
    IN [block |-> Layer("output.block", 0, TRUE, FALSE,
                        channels_in_layer(d, 0, 32, 32), 3, kernel_size)]

\* Decoder.__init__
Decoder__init__(n_double_conv, bottleneck_depth, last_kernel_size, disabled_skip_connections) ==
    LET bottleneck == DecBottleneckConv__init__(512, bottleneck_depth, disabled_skip_connections)
        double_convs_start == bottleneck_depth - 1
        output_start == double_convs_start + n_double_conv * 2
    IN [ok |-> bottleneck.ok,
        bottleneck |-> bottleneck,
        double_convolutions |->
            [j \in 1..RangeLen(n_double_conv) |->
                DecDoubleConv__init__(j - 1, 256 \div Pow2(j - 1), 256 \div Pow2(j),
                                      disabled_skip_connections,
                                      double_convs_start + 2 * (j - 1))],
        output |-> Output__init__(last_kernel_size, disabled_skip_connections, output_start)]

\* The layers of a decoder in the order Decoder.forward applies them; pop marks
\* the layers that consume skip_connections.pop().
DecoderProgram(dec) ==
    <<dec.bottleneck.encode, dec.bottleneck.initial_conv>>
      \o dec.bottleneck.convs
      \o <<dec.bottleneck.out_conv>>
      \o [m \in 1..(2 * Len(dec.double_convolutions)) |->
             IF m % 2 = 1 THEN dec.double_convolutions[(m + 1) \div 2].conv1
             ELSE dec.double_convolutions[m \div 2].conv2]
      \o <<dec.output.block>>

\* Number of pops one Decoder.forward performs:
\* bottleneck pops + 2 per double-conv stage + 1 for the output stage.
DecoderPops(dec) ==
    Cardinality({m \in 1..Len(DecoderProgram(dec)) : DecoderProgram(dec)[m].pop})

\* A pop that yields the placeholder on an empty list instead of raising.
pop_default_empty(lst) ==
    IF lst = <<>> THEN [ok |-> TRUE, value |-> EMPTY_TENSOR, rest |-> <<>>]
    ELSE [ok |-> TRUE, value |-> lst[Len(lst)], rest |-> SubSeq(lst, 1, Len(lst) - 1)]

\* list.pop(): IndexError (ok = FALSE) on an empty list.
pop(lst) ==
    IF lst = <<>> THEN [ok |-> FALSE, value |-> Raised, rest |-> <<>>]
    ELSE [ok |-> TRUE, value |-> lst[Len(lst)], rest |-> SubSeq(lst, 1, Len(lst) - 1)]

\* One decoder layer applied to x and the popped skip connection y:
\* layer(channel_concat(x, y)), the up-sampling layers up-sampling first.
ApplyLayer(layer, x, y) ==
    LET input == IF layer.pop THEN channel_concat(x, y) ELSE x
        up == IF layer.up THEN Upsample(input) ELSE input
    IN Conv2d(up, <<"relit", layer.name, layer.idx>>, layer.cin, layer.cout,
              layer.k, 1, layer.k \div 2)

\* ------------------------------------------------------------------ state

\* Height and width of the input images.
Shapes == {<<32, 64>>, <<40, 40>>, <<256, 256>>}

NoNet == [status |-> "none"]

FrInit ==
    [image |-> None, target |-> None, groundtruth |-> None,
     image_latent |-> None, image_skip_connections |-> 0,
     target_latent |-> None, groundtruth_latent |-> None,
     image_scene_latent |-> None, image_light_latent |-> None,
     target_scene_latent |-> None, target_light_latent |-> None,
     groundtruth_scene_latent |-> None, groundtruth_light_latent |-> None,
     swapped_latent |-> None,
     skip_connections |-> 0, x |-> None, pos |-> 0,
     relit_image |-> None, err |-> "", stage |-> "",
     predicted_image_envmap |-> None, predicted_target_envmap |-> None,
     ret |-> <<>>]

GhostInit == [pushes |-> 0, pops |-> 0, startLen |-> 0, decodes |-> 0, returned |-> 0]

SpIdle == [pc |-> "unused"]

\* The pass ends with an exception raised at the current step.
Fail(err) ==
    /\ pc' = "failed"
    /\ fr' = [fr EXCEPT !.err = err, !.stage = pc]

\* The disabled_skip_connections arguments tried for a network with n skip
\* connections: none, each single index, all of them.
DisabledChoices(n) ==
    {<<>>} \cup {<<i>> : i \in 0..(n - 1)} \cup {[k \in 1..RangeLen(n) |-> k - 1]}

\* --------------------------------------------------------------- SwapNet

Init ==
    /\ net = NoNet
    /\ heap = <<>>
    /\ pc = "new"
    /\ fr = FrInit
    /\ ghost = GhostInit
    /\ sp = SpIdle

\* SwapNet.__init__(splitter, assembler, n_double_conv, bottleneck_depth,
\*                  last_kernel_size=3, disabled_skip_connections)
SwapNet__init__(kind, n_double_conv, bottleneck_depth, disabled_skip_connections) ==
    LET enc == Encoder__init__(n_double_conv, bottleneck_depth, disabled_skip_connections)
        n == get_number_of_possible_skip_connections(enc)
        decoder_disabled_skip_connections ==
            [i \in 1..Len(disabled_skip_connections) |->
                (n - 1) - disabled_skip_connections[i]]
        dec == Decoder__init__(n_double_conv, bottleneck_depth, 3,
                               decoder_disabled_skip_connections)
    IN [status |-> IF dec.ok THEN "ok" ELSE "AssertionError",
        encode |-> enc,
        split |-> IF kind = "AnOtherSwapNet" THEN "AnOtherSwapNetSplitter"
                  ELSE "IlluminationSwapNetSplitter",
        assemble |-> IF kind = "AnOtherSwapNet" THEN "AnOtherSwapNetAssembler"
                     ELSE "IlluminationSwapNetAssembler",
        decode |-> dec]

Construct ==
    /\ pc = "new"
    /\ \E kind \in {"AnOtherSwapNet", "IlluminationSwapNet"},
          n_double_conv \in (0 - 1)..MaxDoubleConv,
          bottleneck_depth \in 0..MaxDepth :
         \E disabled \in DisabledChoices(1 + n_double_conv * 2 + (bottleneck_depth - 1)) :
            LET m == SwapNet__init__(kind, n_double_conv, bottleneck_depth, disabled)
            IN /\ net' = m
               /\ heap' = << <<>> >>
               /\ pc' = IF m.status = "ok" THEN "idle" ELSE "ctor_failed"
    /\ UNCHANGED <<fr, ghost, sp>>

\* image_latent = self.encode(image)
Forward_EncodeImage ==
    /\ pc = "idle"
    /\ \E si \in Shapes, st \in Shapes, sg \in Shapes :
         LET image == Image("image", si[1], si[2])
             r == Encoder_forward(net.encode, heap, image, "image")
         IN /\ net' = [net EXCEPT !.encode = r.enc]
            /\ heap' = r.heap
            /\ ghost' = [ghost EXCEPT !.pushes = Len(r.heap[r.enc.skip_connections])]
            /\ IF IsTensor(r.out)
               THEN /\ pc' = "image_encoded"
                    /\ fr' = [fr EXCEPT !.image = image,
                                        !.target = Image("target", st[1], st[2]),
                                        !.groundtruth = Image("groundtruth", sg[1], sg[2]),
                                        !.image_latent = r.out]
               ELSE /\ pc' = "failed"
                    /\ fr' = [fr EXCEPT !.image = image,
                                        !.target = Image("target", st[1], st[2]),
                                        !.groundtruth = Image("groundtruth", sg[1], sg[2]),
                                        !.err = "RuntimeError", !.stage = pc]
    /\ UNCHANGED sp

\* image_skip_connections = self.encode.get_skip_connections()
Forward_GetSkipConnections ==
    /\ pc = "image_encoded"
    /\ LET r == Encoder_get_skip_connections(net.encode, heap)
       IN /\ heap' = r.heap
          /\ IF r.ok
             THEN /\ pc' = "skips_taken"
                  /\ fr' = [fr EXCEPT !.image_skip_connections = r.ref]
             ELSE Fail("IndexError")
    /\ UNCHANGED <<net, ghost, sp>>

\* target_latent = self.encode(target)
Forward_EncodeTarget ==
    /\ pc = "skips_taken"
    /\ LET r == Encoder_forward(net.encode, heap, fr.target, "target")
       IN /\ net' = [net EXCEPT !.encode = r.enc]
          /\ heap' = r.heap
          /\ IF IsTensor(r.out)
             THEN /\ pc' = "target_encoded"
                  /\ fr' = [fr EXCEPT !.target_latent = r.out]
             ELSE Fail("RuntimeError")
    /\ UNCHANGED <<ghost, sp>>

\* groundtruth_latent = self.encode(groundtruth)
Forward_EncodeGroundtruth ==
    /\ pc = "target_encoded"
    /\ LET r == Encoder_forward(net.encode, heap, fr.groundtruth, "groundtruth")
       IN /\ net' = [net EXCEPT !.encode = r.enc]
          /\ heap' = r.heap
          /\ IF IsTensor(r.out)
             THEN /\ pc' = "groundtruth_encoded"
                  /\ fr' = [fr EXCEPT !.groundtruth_latent = r.out]
             ELSE Fail("RuntimeError")
    /\ UNCHANGED <<ghost, sp>>

\* image_scene_latent, image_light_latent = self.split(image_latent)
Forward_SplitImage ==
    /\ pc = "groundtruth_encoded"
    /\ LET r == Split(net.split, fr.image_latent)
       IN IF r.ok
          THEN /\ pc' = "image_split"
               /\ fr' = [fr EXCEPT !.image_scene_latent = r.scene,
                                   !.image_light_latent = r.light]
          ELSE Fail("KeyError")
    /\ UNCHANGED <<net, heap, ghost, sp>>

\* target_scene_latent, target_light_latent = self.split(target_latent)
Forward_SplitTarget ==
    /\ pc = "image_split"
    /\ LET r == Split(net.split, fr.target_latent)
       IN IF r.ok
          THEN /\ pc' = "target_split"
               /\ fr' = [fr EXCEPT !.target_scene_latent = r.scene,
                                   !.target_light_latent = r.light]
          ELSE Fail("KeyError")
    /\ UNCHANGED <<net, heap, ghost, sp>>

\* groundtruth_scene_latent, groundtruth_light_latent = self.split(groundtruth_latent)
Forward_SplitGroundtruth ==
    /\ pc = "target_split"
    /\ LET r == Split(net.split, fr.groundtruth_latent)
       IN IF r.ok
          THEN /\ pc' = "groundtruth_split"
               /\ fr' = [fr EXCEPT !.groundtruth_scene_latent = r.scene,
                                   !.groundtruth_light_latent = r.light]
          ELSE Fail("KeyError")
    /\ UNCHANGED <<net, heap, ghost, sp>>

\* swapped_latent = self.assemble(image_scene_latent, target_light_latent)
Forward_Assemble ==
    /\ pc = "groundtruth_split"
    /\ LET latent == Assemble(net.assemble, fr.image_scene_latent, fr.target_light_latent)
       IN IF IsTensor(latent)
          THEN /\ pc' = "assembled"
               /\ fr' = [fr EXCEPT !.swapped_latent = latent]
          ELSE Fail("RuntimeError")
    /\ UNCHANGED <<net, heap, ghost, sp>>

\* Entry of Decoder.forward(latent, skip_connections).
EnterDecoder(latent, ref) ==
    /\ pc' = "decoding"
    /\ fr' = [fr EXCEPT !.x = latent, !.skip_connections = ref, !.pos = 1,
                        !.relit_image = None, !.err = "", !.stage = ""]
    /\ ghost' = [ghost EXCEPT !.pops = 0, !.startLen = Len(heap[ref]),
                              !.decodes = ghost.decodes + 1]

\* relit_image = self.decode(swapped_latent, image_skip_connections): the call
Forward_Decode ==
    /\ pc = "assembled"
    /\ EnterDecoder(fr.swapped_latent, fr.image_skip_connections)
    /\ UNCHANGED <<net, heap, sp>>

\* Decoder.forward, one layer per step: the layer's pop (if it has one), the
\* concatenation, the layer itself; after the last layer the pass returns.
Decoder_forward_step ==
    /\ pc = "decoding"
    /\ LET prog == DecoderProgram(net.decode)
           layer == prog[fr.pos]
           p == IF layer.pop THEN pop(heap[fr.skip_connections])
                ELSE [ok |-> TRUE, value |-> None, rest |-> heap[fr.skip_connections]]
           out == ApplyLayer(layer, fr.x, p.value)
       IN IF ~p.ok
          THEN /\ Fail("IndexError")
               /\ UNCHANGED <<heap, ghost>>
          ELSE /\ heap' = [heap EXCEPT ![fr.skip_connections] = p.rest]
               /\ IF ~IsTensor(out)
                  THEN /\ Fail("RuntimeError")
                       /\ ghost' = [ghost EXCEPT
                                       !.pops = ghost.pops + (IF layer.pop THEN 1 ELSE 0)]
                  ELSE IF fr.pos = Len(prog)
                  THEN /\ pc' = "decoded"
                       /\ fr' = [fr EXCEPT !.x = out, !.relit_image = out]
                       /\ ghost' = [ghost EXCEPT
                                       !.pops = ghost.pops + (IF layer.pop THEN 1 ELSE 0),
                                       !.returned = ghost.returned + 1]
                  ELSE /\ pc' = "decoding"
                       /\ fr' = [fr EXCEPT !.x = out, !.pos = fr.pos + 1]
                       /\ ghost' = [ghost EXCEPT
                                       !.pops = ghost.pops + (IF layer.pop THEN 1 ELSE 0)]
    /\ UNCHANGED <<net, sp>>

\* A return statement listing the scene latents before the light latents.
return_scene_first(f) ==
    <<f.relit_image,
      f.image_scene_latent, f.target_scene_latent, f.groundtruth_scene_latent,
      f.image_light_latent, f.target_light_latent, f.groundtruth_light_latent>>

\* The tuple SwapNet.forward returns.
SwapNet_forward_return(f) ==
    <<f.relit_image,
      f.image_light_latent, f.target_light_latent, f.groundtruth_light_latent,
      f.image_scene_latent, f.target_scene_latent, f.groundtruth_scene_latent>>

\* return relit_image, the three light latents, the three scene latents
Forward_Return ==
    /\ pc = "decoded"
    /\ pc' = "done"
    /\ fr' = [fr EXCEPT !.ret = SwapNet_forward_return(fr)]
    /\ UNCHANGED <<net, heap, ghost, sp>>

Next ==
    \/ Construct
    \/ Forward_EncodeImage
    \/ Forward_GetSkipConnections
    \/ Forward_EncodeTarget
    \/ Forward_EncodeGroundtruth
    \/ Forward_SplitImage
    \/ Forward_SplitTarget
    \/ Forward_SplitGroundtruth
    \/ Forward_Assemble
    \/ Forward_Decode
    \/ Decoder_forward_step
    \/ Forward_Return

Spec == Init /\ [][Next]_vars

\* ------------------------------------------- Encoder and Decoder on their own

\* Encoder-side disabled lists tried for a stand-alone Encoder: none, all.
PairDisabledChoices(n) == {<<>>, [k \in 1..RangeLen(n) |-> k - 1]}

\* An Encoder and a Decoder constructed independently of each other; the
\* decoder's disabled list is given in the decoder's own numbering.
PairConstruct ==
    /\ pc = "new"
    /\ \E e_double_conv \in (0 - 1)..MaxDoubleConv, e_depth \in 0..MaxDepth,
          d_double_conv \in (0 - 1)..MaxDoubleConv, d_depth \in 0..MaxDepth :
         \E e_disabled \in PairDisabledChoices(1 + e_double_conv * 2 + (e_depth - 1)),
            d_disabled \in PairDisabledChoices(d_depth + d_double_conv * 2) :
            LET dec == Decoder__init__(d_double_conv, d_depth, 3, d_disabled)
            IN /\ net' = [status |-> IF dec.ok THEN "ok" ELSE "AssertionError",
                          encode |-> Encoder__init__(e_double_conv, e_depth, e_disabled),
                          split |-> "none", assemble |-> "none",
                          decode |-> dec]
               /\ heap' = << <<>> >>
               /\ pc' = IF dec.ok THEN "idle" ELSE "ctor_failed"
    /\ UNCHANGED <<fr, ghost, sp>>

\* latent = encoder(image)
Pair_Encode ==
    /\ pc = "idle"
    /\ \E si \in Shapes :
         LET image == Image("image", si[1], si[2])
             r == Encoder_forward(net.encode, heap, image, "image")
         IN /\ net' = [net EXCEPT !.encode = r.enc]
            /\ heap' = r.heap
            /\ ghost' = [ghost EXCEPT !.pushes = Len(r.heap[r.enc.skip_connections])]
            /\ IF IsTensor(r.out)
               THEN /\ pc' = "image_encoded"
                    /\ fr' = [fr EXCEPT !.image = image, !.image_latent = r.out]
               ELSE /\ pc' = "failed"
                    /\ fr' = [fr EXCEPT !.image = image,
                                        !.err = "RuntimeError", !.stage = pc]
    /\ UNCHANGED sp

\* decoder(latent, skip_connections): the call, also on a stack object that an
\* earlier decoder pass (returned or failed) has already consumed from.
Pair_Decode ==
    /\ \/ pc = "skips_taken"
       \/ pc = "decoded"
       \/ pc = "failed" /\ fr.stage = "decoding"
    /\ ghost.decodes < MaxDecodes
    /\ EnterDecoder(fr.image_latent, fr.image_skip_connections)
    /\ UNCHANGED <<net, heap, sp>>

NextPair ==
    \/ PairConstruct
    \/ Pair_Encode
    \/ Forward_GetSkipConnections
    \/ Pair_Decode
    \/ Decoder_forward_step

SpecPair == Init /\ [][NextPair]_vars

\* ------------------------------------------- size_splits and the channel split

RECURSIVE SizeLists(_)
\* The split_sizes lists of at most n entries, each entry in 0..MaxPart.
SizeLists(n) ==
    IF n = 0 THEN {<<>>}
    ELSE SizeLists(n - 1)
           \cup {Append(l, k) : l \in {m \in SizeLists(n - 1) : Len(m) = n - 1},
                                k \in 0..MaxPart}

\* The tensors split: every channel count up to MaxDim, the latent's 512 and
\* its neighbours, and a 512-channel tensor made of two opaque results.
SplitTensors ==
    {Tensor(<<"x", "latent", 0>>, c, 2, 2) : c \in (0..MaxDim) \cup {509, 511, 512, 513}}
      \cup {channel_concat(Tensor(<<"x", "a", 0>>, 200, 2, 2),
                           Tensor(<<"x", "b", 0>>, 312, 2, 2))}

InitSplit ==
    /\ net = NoNet
    /\ heap = <<>>
    /\ pc = "unused"
    /\ fr = FrInit
    /\ ghost = GhostInit
    /\ \E t \in SplitTensors, l \in SizeLists(MaxParts) :
         sp = [pc |-> "start", tensor |-> t, split_sizes |-> l, splits |-> <<>>,
               scene |-> None, light |-> None, latent |-> None]

\* size_splits(tensor, split_sizes, dim=1)
SizeSplits_call ==
    /\ sp.pc = "start"
    /\ LET r == size_splits(sp.tensor, sp.split_sizes)
       IN sp' = [sp EXCEPT !.pc = IF r.ok THEN "splits_returned" ELSE "size_splits_KeyError",
                           !.splits = r.splits]
    /\ UNCHANGED <<net, heap, pc, fr, ghost>>

\* AnOtherSwapNetSplitter.__init__: takes no argument and checks nothing.
AnOtherSwapNetSplitter__init__ ==
    /\ sp.pc = "start"
    /\ sp' = [sp EXCEPT !.pc = "constructed"]
    /\ UNCHANGED <<net, heap, pc, fr, ghost>>

\* scene, light = splitter(latent)
AnOtherSwapNetSplitter_call ==
    /\ sp.pc = "constructed"
    /\ LET r == AnOtherSwapNetSplitter_forward(sp.tensor)
       IN sp' = [sp EXCEPT !.pc = IF r.ok THEN "split_done" ELSE "split_KeyError",
                           !.scene = r.scene, !.light = r.light]
    /\ UNCHANGED <<net, heap, pc, fr, ghost>>

\* latent = assembler(scene, light)
AnOtherSwapNetAssembler_call ==
    /\ sp.pc = "split_done"
    /\ sp' = [sp EXCEPT !.pc = "assembled",
                        !.latent = AnOtherSwapNetAssembler_forward(sp.scene, sp.light)]
    /\ UNCHANGED <<net, heap, pc, fr, ghost>>

NextSplit ==
    \/ SizeSplits_call
    \/ AnOtherSwapNetSplitter__init__
    \/ AnOtherSwapNetSplitter_call
    \/ AnOtherSwapNetAssembler_call

SpecSplit == InitSplit /\ [][NextSplit]_vars

\* ----------------------------------------------- GroundtruthEnvmapSwapNet

\* The defaults of SwapNet.__init__.
default_n_double_conv == 3
default_bottleneck_depth == 4

\* GroundtruthEnvmapSwapNet.__init__(disabled_skip_connections): the
\* illumination splitter and assembler, default n_double_conv and depth.
GroundtruthEnvmapSwapNet__init__(disabled_skip_connections) ==
    SwapNet__init__("GroundtruthEnvmapSwapNet", default_n_double_conv,
                    default_bottleneck_depth, disabled_skip_connections)

Envmap_Construct ==
    /\ pc = "new"
    /\ \E disabled \in DisabledChoices(1 + default_n_double_conv * 2
                                            + (default_bottleneck_depth - 1)) :
         LET m == GroundtruthEnvmapSwapNet__init__(disabled)
         IN /\ net' = m
            /\ heap' = << <<>> >>
            /\ pc' = IF m.status = "ok" THEN "idle" ELSE "ctor_failed"
    /\ UNCHANGED <<fr, ghost, sp>>

\* _, predicted_image_envmap = self.split(image_latent)
Envmap_SplitImage ==
    /\ pc = "skips_taken"
    /\ LET r == Split(net.split, fr.image_latent)
       IN IF r.ok
          THEN /\ pc' = "image_split"
               /\ fr' = [fr EXCEPT !.predicted_image_envmap = r.light]
          ELSE Fail("RuntimeError")
    /\ UNCHANGED <<net, heap, ghost, sp>>

\* target_latent = self.encode(target)
Envmap_EncodeTarget ==
    /\ pc = "image_split"
    /\ LET r == Encoder_forward(net.encode, heap, fr.target, "target")
       IN /\ net' = [net EXCEPT !.encode = r.enc]
          /\ heap' = r.heap
          /\ IF IsTensor(r.out)
             THEN /\ pc' = "target_encoded"
                  /\ fr' = [fr EXCEPT !.target_latent = r.out]
             ELSE Fail("RuntimeError")
    /\ UNCHANGED <<ghost, sp>>

\* _, predicted_target_envmap = self.split(target_latent)
Envmap_SplitTarget ==
    /\ pc = "target_encoded"
    /\ LET r == Split(net.split, fr.target_latent)
       IN IF r.ok
          THEN /\ pc' = "target_split"
               /\ fr' = [fr EXCEPT !.predicted_target_envmap = r.light]
          ELSE Fail("RuntimeError")
    /\ UNCHANGED <<net, heap, ghost, sp>>

\* An assemble call handing over the image's predicted environment map.
assemble_image_envmap(assembler, f) ==
    Assemble(assembler, None, f.predicted_image_envmap)

\* self.assemble(None, predicted_target_envmap)
GroundtruthEnvmapSwapNet_assemble(assembler, f) ==
    Assemble(assembler, None, f.predicted_target_envmap)

\* swapped_latent = self.assemble(None, predicted_target_envmap)
Envmap_Assemble ==
    /\ pc = "target_split"
    /\ LET latent == GroundtruthEnvmapSwapNet_assemble(net.assemble, fr)
       IN IF IsTensor(latent)
          THEN /\ pc' = "assembled"
               /\ fr' = [fr EXCEPT !.swapped_latent = latent]
          ELSE Fail("RuntimeError")
    /\ UNCHANGED <<net, heap, ghost, sp>>

\* return relit_image, predicted_image_envmap, predicted_target_envmap
Envmap_Return ==
    /\ pc = "decoded"
    /\ pc' = "done"
    /\ fr' = [fr EXCEPT !.ret = <<fr.relit_image, fr.predicted_image_envmap,
                                  fr.predicted_target_envmap>>]
    /\ UNCHANGED <<net, heap, ghost, sp>>

\* GroundtruthEnvmapSwapNet.forward(image, target, groundtruth)
NextEnvmap ==
    \/ Envmap_Construct
    \/ Forward_EncodeImage
    \/ Forward_GetSkipConnections
    \/ Envmap_SplitImage
    \/ Envmap_EncodeTarget
    \/ Envmap_SplitTarget
    \/ Envmap_Assemble
    \/ Forward_Decode
    \/ Decoder_forward_step
    \/ Envmap_Return

SpecEnvmap == Init /\ [][NextEnvmap]_vars

\* ------------------------------------- SwapNet in its default configuration

RECURSIVE SortedSeq(_)
\* The elements of a finite set of integers in increasing order.
SortedSeq(S) ==
    IF S = {} THEN <<>>
    ELSE LET lo == CHOOSE i \in S : \A j \in S : i <= j
         IN <<lo>> \o SortedSeq(S \ {lo})

\* Every disabled_skip_connections argument naming a subset of 0..n-1.
SubsetChoices(n) == {SortedSeq(S) : S \in SUBSET (0..(n - 1))}

\* AnOtherSwapNet(disabled_skip_connections) / IlluminationSwapNet(...): the
\* subclasses leave n_double_conv and bottleneck_depth at their defaults.
Default_Construct ==
    /\ pc = "new"
    /\ \E kind \in {"AnOtherSwapNet", "IlluminationSwapNet"} :
         \E disabled \in SubsetChoices(1 + default_n_double_conv * 2
                                          + (default_bottleneck_depth - 1)) :
            LET m == SwapNet__init__(kind, default_n_double_conv,
                                     default_bottleneck_depth, disabled)
            IN /\ net' = m
               /\ heap' = << <<>> >>
               /\ pc' = IF m.status = "ok" THEN "idle" ELSE "ctor_failed"
    /\ UNCHANGED <<fr, ghost, sp>>

\* image_latent = self.encode(image), for a batch whose image, target and
\* groundtruth have one size.
Default_EncodeImage ==
    /\ pc = "idle"
    /\ \E si \in Shapes :
         LET image == Image("image", si[1], si[2])
             r == Encoder_forward(net.encode, heap, image, "image")
         IN /\ net' = [net EXCEPT !.encode = r.enc]
            /\ heap' = r.heap
            /\ ghost' = [ghost EXCEPT !.pushes = Len(r.heap[r.enc.skip_connections])]
            /\ IF IsTensor(r.out)
               THEN /\ pc' = "image_encoded"
                    /\ fr' = [fr EXCEPT !.image = image,
                                        !.target = Image("target", si[1], si[2]),
                                        !.groundtruth = Image("groundtruth", si[1], si[2]),
                                        !.image_latent = r.out]
               ELSE /\ pc' = "failed"
                    /\ fr' = [fr EXCEPT !.image = image,
                                        !.target = Image("target", si[1], si[2]),
                                        !.groundtruth = Image("groundtruth", si[1], si[2]),
                                        !.err = "RuntimeError", !.stage = pc]
    /\ UNCHANGED sp

NextDefault ==
    \/ Default_Construct
    \/ Default_EncodeImage
    \/ Forward_GetSkipConnections
    \/ Forward_EncodeTarget
    \/ Forward_EncodeGroundtruth
    \/ Forward_SplitImage
    \/ Forward_SplitTarget
    \/ Forward_SplitGroundtruth
    \/ Forward_Assemble
    \/ Forward_Decode
    \/ Decoder_forward_step
    \/ Forward_Return

SpecDefault == Init /\ [][NextDefault]_vars

\* ---------------------------------------- Encoder.get_skip_connections alone

\* The disabled_skip_connections arguments tried for a stand-alone Encoder
\* with n skip connections: none, every single index from -(n+1) to n, every
\* ordered pair of distinct indices of 0..n-1, all of 0..n-1.
IndexLists(n) ==
    {<<>>} \cup {<<i>> : i \in (0 - (n + 1))..n}
           \cup {<<q[1], q[2]>> : q \in {t \in (0..(n - 1)) \X (0..(n - 1)) : t[1] # t[2]}}
           \cup {[k \in 1..RangeLen(n) |-> k - 1]}

\* encoder = Encoder(n_double_conv, bottleneck_depth, disabled_skip_connections)
Skips_Construct ==
    /\ pc = "new"
    /\ \E n_double_conv \in (0 - 1)..MaxDoubleConv, bottleneck_depth \in 0..MaxDepth :
         \E disabled \in IndexLists(1 + n_double_conv * 2 + (bottleneck_depth - 1)) :
            /\ net' = [status |-> "ok",
                       encode |-> Encoder__init__(n_double_conv, bottleneck_depth, disabled),
                       split |-> "none", assemble |-> "none", decode |-> "none"]
            /\ heap' = << <<>> >>
            /\ pc' = "idle"
    /\ UNCHANGED <<fr, ghost, sp>>

\* encoder.get_skip_connections(), called once more after it has returned.
Skips_GetAgain ==
    /\ pc = "skips_taken"
    /\ LET r == Encoder_get_skip_connections(net.encode, heap)
       IN /\ heap' = r.heap
          /\ IF r.ok
             THEN /\ pc' = "skips_taken_again"
                  /\ fr' = [fr EXCEPT !.image_skip_connections = r.ref]
             ELSE Fail("IndexError")
    /\ UNCHANGED <<net, ghost, sp>>

NextSkips ==
    \/ Skips_Construct
    \/ Pair_Encode
    \/ Forward_GetSkipConnections
    \/ Skips_GetAgain

SpecSkips == Init /\ [][NextSkips]_vars

\* ----------------------------- SwapNet with disabled indices outside [0, n)

\* The disabled_skip_connections arguments tried for a SwapNet with n skip
\* connections: none, every single index from -(n+1) to n, and an index just
\* outside [0, n) (-n, -1 or n) together with an index inside it.
RangeChoices(n) ==
    {<<>>} \cup {<<i>> : i \in (0 - (n + 1))..n}
           \cup {<<q[1], q[2]>> : q \in {0 - n, 0 - 1, n} \X (0..(n - 1))}

\* SwapNet(splitter, assembler, n_double_conv, bottleneck_depth,
\*         disabled_skip_connections=...)
Range_Construct ==
    /\ pc = "new"
    /\ \E kind \in {"AnOtherSwapNet", "IlluminationSwapNet"},
          n_double_conv \in (0 - 1)..MaxDoubleConv,
          bottleneck_depth \in 0..MaxDepth :
         \E disabled \in RangeChoices(1 + n_double_conv * 2 + (bottleneck_depth - 1)) :
            LET m == SwapNet__init__(kind, n_double_conv, bottleneck_depth, disabled)
            IN /\ net' = m
               /\ heap' = << <<>> >>
               /\ pc' = IF m.status = "ok" THEN "idle" ELSE "ctor_failed"
    /\ UNCHANGED <<fr, ghost, sp>>

NextRange ==
    \/ Range_Construct
    \/ Default_EncodeImage
    \/ Forward_GetSkipConnections
    \/ Forward_EncodeTarget
    \/ Forward_EncodeGroundtruth
    \/ Forward_SplitImage
    \/ Forward_SplitTarget
    \/ Forward_SplitGroundtruth
    \/ Forward_Assemble
    \/ Forward_Decode
    \/ Decoder_forward_step
    \/ Forward_Return

SpecRange == Init /\ [][NextRange]_vars

\* ------------------------------------------------------------------ claims

\* A decoder pass has been entered in this behaviour.
DecodeEntered == pc \in {"decoding", "decoded", "done"} \/ (pc = "failed" /\ fr.stage = "decoding")

\* The layers of prog that perform pop number k (0-based) of Decoder.forward.
PopLayers(prog, k) ==
    {m \in 1..Len(prog) :
        prog[m].pop /\ Cardinality({j \in 1..(m - 1) : prog[j].pop}) = k}

(* C1: for every n_double_conv >= 0 and bottleneck_depth accepted by both
   constructors, a decoder pass over the stack of one encoder pass of the same
   configuration performs as many pops as the encoder pushed, never pops an
   empty stack, and leaves the stack empty when it returns. *)
C1_PopsEqualPushes ==
    (net.status = "ok" /\ net.encode.n_double_conv >= 0 /\ DecodeEntered)
        => /\ DecoderPops(net.decode) = ghost.pushes
           /\ fr.err # "IndexError"
           /\ (pc \in {"decoded", "done"}
                   => heap[fr.skip_connections] = <<>> /\ ghost.pops = ghost.pushes)

(* C2: constructing SwapNet with disabled_skip_connections = {i}, 0 <= i < n,
   instead of {} changes the input-channel count of exactly one decoder layer,
   the one whose pop consumes encoder position i (pop number n-1-i), and of no
   other layer. *)
C2_ExactlyOneLayerChanges ==
    (net.status = "ok" /\ net.split # "none" /\ net.encode.n_double_conv >= 0
       /\ Len(net.encode.disabled_skip_connections) = 1)
        => LET i == net.encode.disabled_skip_connections[1]
               n == get_number_of_possible_skip_connections(net.encode)
               prog == DecoderProgram(net.decode)
               base == DecoderProgram(
                           Decoder__init__(net.encode.n_double_conv,
                                           net.encode.bottleneck_depth, 3, <<>>))
           IN (0 <= i /\ i < n)
                 => {m \in 1..Len(prog) : prog[m].cin # base[m].cin}
                        = PopLayers(prog, (n - 1) - i)

\* The statements of SwapNet.forward between taking the image's skip stack
\* and handing it to the decoder.
HoldingImageStack ==
    pc \in {"skips_taken", "target_encoded", "groundtruth_encoded", "image_split",
            "target_split", "groundtruth_split", "assembled"}

(* C3: the skip stack handed to the decoder in SwapNet.forward holds the n
   entries of the pass that encoded image, in production order (a disabled
   position holding the placeholder get_skip_connections put there); the
   later encodes of target and groundtruth on the same Encoder add, remove
   and replace nothing in it. *)
C3_ImageStackUntouched ==
    (net.status = "ok" /\ net.split # "none" /\ HoldingImageStack)
        => LET stack == heap[fr.image_skip_connections]
               pushed == Encoder_forward_body(net.encode, fr.image, "image").skip_connections
               disabled == net.encode.disabled_skip_connections
           IN /\ Len(stack) = get_number_of_possible_skip_connections(net.encode)
              /\ Len(stack) = Len(pushed)
              /\ \A k \in 1..Len(stack) :
                    /\ stack[k] = IF \E d \in 1..Len(disabled) : disabled[d] = k - 1
                                  THEN EMPTY_TENSOR ELSE pushed[k]
                    /\ \A c \in 0..(Channels(stack[k]) - 1) : SourceAt(stack[k], c) = "image"

C3_Witness ==
    /\ pc = "assembled"
    /\ net.encode.skip_connections # fr.image_skip_connections
    /\ Len(heap[net.encode.skip_connections]) = 10
    /\ Len(heap[fr.image_skip_connections]) = 10
    /\ Len(net.encode.disabled_skip_connections) = 1

(* C4: the latent SwapNet.forward passes to the decoder is
   assemble(image's scene, target's light); no channel of it comes from the
   ground truth; with the channel-split strategy its channels [0,3) are
   channels [0,3) of the target latent and its channels [3,512) are channels
   [3,512) of the image latent. *)
C4_SwappedLatent ==
    (net.status = "ok" /\ net.split # "none" /\ IsTensor(fr.swapped_latent))
        => /\ fr.swapped_latent
                 = Assemble(net.assemble, fr.image_scene_latent, fr.target_light_latent)
           /\ \A c \in 0..(Channels(fr.swapped_latent) - 1) :
                 SourceAt(fr.swapped_latent, c) # "groundtruth"
           /\ net.assemble = "AnOtherSwapNetAssembler"
                 => /\ Channels(fr.swapped_latent) = 512
                    /\ \A c \in 0..2 :
                          ChannelAt(fr.swapped_latent, c) = ChannelAt(fr.target_latent, c)
                    /\ \A c \in 3..511 :
                          ChannelAt(fr.swapped_latent, c) = ChannelAt(fr.image_latent, c)
           /\ net.assemble = "IlluminationSwapNetAssembler"
                 => \A c \in 0..(Channels(fr.swapped_latent) - 1) :
                       SourceAt(fr.swapped_latent, c) = "target"

C4_Witness ==
    /\ pc = "assembled"
    /\ net.assemble = "AnOtherSwapNetAssembler"
    /\ Channels(fr.swapped_latent) = 512
    /\ fr.target_latent # fr.image_latent

(* C5: for every 512-channel latent x the channel splitter returns
   light = channels [0,3) and scene = channels [3,512) of x, and the channel
   assembler applied to that pair returns 512 channels equal to x channel for
   channel, in the same order. *)
C5_RoundTrip ==
    /\ (sp.pc \in {"split_done", "split_KeyError", "assembled"} /\ Channels(sp.tensor) = 512)
          => sp.pc # "split_KeyError"
    /\ sp.pc \in {"split_done", "assembled"}
          => /\ Channels(sp.light) = 3
             /\ Channels(sp.scene) = 509
             /\ \A c \in 0..2 : ChannelAt(sp.light, c) = ChannelAt(sp.tensor, c)
             /\ \A c \in 0..508 : ChannelAt(sp.scene, c) = ChannelAt(sp.tensor, c + 3)
    /\ sp.pc = "assembled"
          => /\ Channels(sp.latent) = 512
             /\ sp.latent.h = sp.tensor.h /\ sp.latent.w = sp.tensor.w
             /\ \A c \in 0..511 : ChannelAt(sp.latent, c) = ChannelAt(sp.tensor, c)

C5_Witness ==
    /\ sp.pc = "assembled"
    /\ Channels(sp.tensor) = 512
    /\ Len(sp.tensor.segs) = 2

\* Encoder.forward has returned and get_skip_connections has returned its list.
SkipsReturned == net.status = "ok" /\ pc = "skips_taken"

(* C6 as stated: for EVERY encoder configuration the value of
   get_number_of_possible_skip_connections(), 1 + 2*n_double_conv +
   (bottleneck_depth - 1), is the length of the list get_skip_connections()
   returns after a forward pass. *)
C6_CountForEveryConfiguration ==
    SkipsReturned
        => /\ get_number_of_possible_skip_connections(net.encode)
                 = 1 + 2 * net.encode.n_double_conv + (net.encode.bottleneck_depth - 1)
           /\ Len(heap[fr.image_skip_connections])
                 = get_number_of_possible_skip_connections(net.encode)

(* C6 amended: for every encoder configuration with n_double_conv >= 0 and
   bottleneck_depth >= 1, get_number_of_possible_skip_connections() is
   1 + 2*n_double_conv + (bottleneck_depth - 1) and equals the length of the
   list get_skip_connections() returns after a forward pass, whatever the
   disabled-index list is. *)
C6_CountForValidConfiguration ==
    (SkipsReturned /\ net.encode.n_double_conv >= 0 /\ net.encode.bottleneck_depth >= 1)
        => /\ get_number_of_possible_skip_connections(net.encode)
                 = 1 + 2 * net.encode.n_double_conv + (net.encode.bottleneck_depth - 1)
           /\ Len(heap[fr.image_skip_connections])
                 = get_number_of_possible_skip_connections(net.encode)

C6_Witness ==
    /\ SkipsReturned
    /\ net.encode.n_double_conv = 3
    /\ net.encode.bottleneck_depth = 4
    /\ Len(net.encode.disabled_skip_connections) = 10
    /\ Len(heap[fr.image_skip_connections]) = 10

(* C7: a decoder pass started on a stack holding fewer entries than the
   decoder pops never returns an image and, once over, has failed; so a second
   pass on the stack object a successful pass has drained fails. *)
C7_UnderflowFails ==
    (net.status = "ok" /\ DecodeEntered /\ ghost.startLen < DecoderPops(net.decode))
        => /\ pc \in {"decoding", "failed"}
           /\ ~IsTensor(fr.relit_image)
           /\ pc = "failed" => fr.err \in {"IndexError", "RuntimeError"}

C7_Witness ==
    /\ pc = "failed"
    /\ fr.err = "IndexError"
    /\ ghost.decodes = 2
    /\ ghost.returned = 1
    /\ ghost.startLen = 0

(* C8: a decoder pass started on a stack holding more entries than the decoder
   pops does not return an image normally: the leftover entries are detected
   and the pass fails. *)
C8_LeftoverSurfaced ==
    (net.status = "ok" /\ DecodeEntered /\ ghost.startLen > DecoderPops(net.decode))
        => pc # "decoded"

\* The slices size_splits returned are contiguous, in the given order, and
\* cover the channels of the tensor exactly.
SlicesCover(tensor, split_sizes, splits) ==
    /\ Len(splits) = Len(split_sizes)
    /\ SumSizes(split_sizes, Len(split_sizes)) = Channels(tensor)
    /\ \A j \in 1..Len(splits) :
          /\ IsTensor(splits[j])
          /\ Channels(splits[j]) = split_sizes[j]
          /\ \A c \in 0..(split_sizes[j] - 1) :
                ChannelAt(splits[j], c)
                    = ChannelAt(tensor, SumSizes(split_sizes, j - 1) + c)

(* C9 as stated: split sizes that do not sum to the tensor's channel count
   make the CONSTRUCTION of the splitter fail (so no splitter exists whose
   sizes 3 + 509 mismatch its latent); size_splits returns slices only when
   the sizes sum to the dimension, and then they are contiguous, ordered and
   cover it. *)
C9_FailsAtConstruction ==
    /\ Channels(sp.tensor) # 3 + 509
          => sp.pc \notin {"constructed", "split_done", "split_KeyError", "assembled"}
    /\ sp.pc = "splits_returned" => SlicesCover(sp.tensor, sp.split_sizes, sp.splits)

(* C9 amended: split sizes that do not sum to the tensor's channel count are a
   fatal KeyError raised when the splitter's forward calls size_splits (the
   splitter's constructor checks nothing), never a silent truncation:
   size_splits returns slices only when the sizes sum to the dimension, and
   then they are contiguous, non-overlapping, ordered and cover it. *)
C9_FailsAtForward ==
    /\ sp.pc = "splits_returned" => SlicesCover(sp.tensor, sp.split_sizes, sp.splits)
    /\ sp.pc = "size_splits_KeyError"
          => /\ SumSizes(sp.split_sizes, Len(sp.split_sizes)) # Channels(sp.tensor)
             /\ sp.splits = <<>>
    /\ sp.pc \in {"split_done", "assembled"}
          => /\ Channels(sp.tensor) = 3 + 509
             /\ SlicesCover(sp.tensor, <<3, 509>>, <<sp.light, sp.scene>>)
    /\ sp.pc = "split_KeyError"
          => /\ Channels(sp.tensor) # 3 + 509
             /\ ~IsTensor(sp.scene) /\ ~IsTensor(sp.light)

C9_Witness ==
    /\ sp.pc = "split_KeyError"
    /\ Channels(sp.tensor) = 513

\* Encoder.forward has returned a latent for an image whose height and width
\* are divisible by 32, in the default 3-double-conv configuration.
DefaultEncoded ==
    /\ net.status = "ok"
    /\ IsTensor(fr.image_latent)
    /\ net.encode.n_double_conv = 3
    /\ fr.image.h % 32 = 0 /\ fr.image.w % 32 = 0

(* C10 as stated: in the default configuration the latent of an [N,3,H,W]
   image, H and W divisible by 32, has shape [N,512,H/32,W/32] (five
   halvings). *)
C10_LatentIsThirtySecond ==
    DefaultEncoded
        => /\ Channels(fr.image_latent) = 512
           /\ fr.image_latent.h * 32 = fr.image.h
           /\ fr.image_latent.w * 32 = fr.image.w

(* C10 amended: in the default configuration the latent of an [N,3,H,W]
   image, H and W divisible by 32, has shape [N,512,H/16,W/16]: the spatial
   resolution is halved exactly four times (once by the image encoding, once
   by each of the three double convolutions). *)
C10_LatentIsSixteenth ==
    DefaultEncoded
        => /\ Channels(fr.image_latent) = 512
           /\ fr.image_latent.h * 16 = fr.image.h
           /\ fr.image_latent.w * 16 = fr.image.w

C10_Witness ==
    /\ DefaultEncoded
    /\ fr.image.h = 32
    /\ fr.image.w = 64
    /\ fr.image_latent.h = 2
    /\ fr.image_latent.w = 4

\* The positions of SwapNet.forward in program order.
ForwardOrder ==
    <<"idle", "image_encoded", "skips_taken", "target_encoded", "groundtruth_encoded",
      "image_split", "target_split", "groundtruth_split", "assembled", "decoding",
      "decoded", "done">>

\* The index of position p in ForwardOrder (0 when p is not a position of it).
StageIndex(p) ==
    IF \E k \in 1..Len(ForwardOrder) : ForwardOrder[k] = p
    THEN CHOOSE k \in 1..Len(ForwardOrder) : ForwardOrder[k] = p
    ELSE 0

\* The results of the statements of SwapNet.forward, in program order: result
\* k is assigned by the step that leaves position k of ForwardOrder.
ForwardResults(f) ==
    <<f.image_latent, IF f.image_skip_connections = 0 THEN None ELSE f.image,
      f.target_latent, f.groundtruth_latent,
      f.image_light_latent, f.target_light_latent, f.groundtruth_light_latent,
      f.swapped_latent>>

\* One step of a SwapNet.forward pass that follows the linear order.
LinearStep ==
    /\ StageIndex(pc) \in 1..9 => pc' \in {ForwardOrder[StageIndex(pc) + 1], "failed"}
    /\ pc = "decoding" => pc' \in {"decoding", "decoded", "failed"}
    /\ pc = "decoded" => pc' = "done"
    /\ pc \in {"done", "failed"} => pc' = pc
    /\ pc # "new" => /\ net'.split = net.split
                     /\ net'.assemble = net.assemble
                     /\ net'.decode = net.decode
    /\ (pc = "decoding" /\ pc' = "decoding") => fr'.pos = fr.pos + 1

\* What a pass has computed at each position: every result up to the current
\* position, nothing after it; after a failure, nothing from the failed step on.
LinearState ==
    /\ ghost.decodes <= 1
    /\ ghost.returned <= ghost.decodes
    /\ StageIndex(pc) \in 1..9
          => \A k \in 1..8 : (ForwardResults(fr)[k] # None) <=> (k < StageIndex(pc))
    /\ pc \in {"decoding", "decoded", "done"}
          => /\ \A k \in 1..8 : ForwardResults(fr)[k] # None
             /\ ghost.decodes = 1
             /\ fr.skip_connections = fr.image_skip_connections
    /\ pc = "failed"
          => /\ StageIndex(fr.stage) \in 1..10
             /\ \A k \in 1..8 : (ForwardResults(fr)[k] # None) <=> (k < StageIndex(fr.stage))
             /\ ghost.decodes = (IF fr.stage = "decoding" THEN 1 ELSE 0)
             /\ ghost.returned = 0
             /\ ~IsTensor(fr.relit_image)
             /\ fr.ret = <<>>
    /\ pc # "done" => fr.ret = <<>>
    /\ pc = "done"
          => /\ ghost.returned = 1
             /\ Len(fr.ret) = 7
             /\ IsTensor(fr.ret[1])
             /\ fr.ret[1] = fr.relit_image
             /\ fr.ret[2] = fr.image_light_latent
             /\ fr.ret[3] = fr.target_light_latent
             /\ fr.ret[4] = fr.groundtruth_light_latent
             /\ fr.ret[5] = fr.image_scene_latent
             /\ fr.ret[6] = fr.target_scene_latent
             /\ fr.ret[7] = fr.groundtruth_scene_latent
             /\ fr.ret[2] = Split(net.split, fr.image_latent).light
             /\ fr.ret[3] = Split(net.split, fr.target_latent).light
             /\ fr.ret[4] = Split(net.split, fr.groundtruth_latent).light
             /\ fr.ret[5] = Split(net.split, fr.image_latent).scene
             /\ fr.ret[6] = Split(net.split, fr.target_latent).scene
             /\ fr.ret[7] = Split(net.split, fr.groundtruth_latent).scene

(* C11: every SwapNet.forward pass is linear: each step moves to the next
   position of the order encode image, take its skip stack, encode target,
   encode ground truth, split image, split target, split ground truth (one
   splitter), assemble, decode, return, or to failure; nothing runs after a
   failure or after the return; there is one assemble and one decode; the
   returned value is the 7-tuple (relit image, image light, target light,
   ground-truth light, image scene, target scene, ground-truth scene). *)
C11_LinearPass == [][LinearStep /\ LinearState']_vars

C11_Witness ==
    /\ pc = "done"
    /\ Len(fr.ret) = 7
    /\ net.split = "AnOtherSwapNetSplitter"
    /\ Channels(fr.ret[2]) = 3
    /\ Channels(fr.ret[5]) = 509
    /\ SourceAt(fr.ret[4], 0) = "groundtruth"

\* The input key of every channel of x is src.
AllFrom(x, src) == \A c \in 0..(Channels(x) - 1) : SourceAt(x, c) = src

(* C12: GroundtruthEnvmapSwapNet.forward encodes and splits image and target
   only (the ground truth is never encoded or split, and nothing computed
   from it is ever held); the latent it decodes is assemble(None, target's
   light), every channel of which comes from the target and none from the
   image; the decoder is given the skip stack of the image's encoder pass;
   the value returned is (relit image, image light, target light). *)
C12_EnvmapPass ==
    /\ fr.groundtruth_latent = None
    /\ fr.groundtruth_scene_latent = None /\ fr.groundtruth_light_latent = None
    /\ \A r \in 1..Len(heap) : \A k \in 1..Len(heap[r]) : ~AllFrom(heap[r][k], "groundtruth")
                                                            \/ Channels(heap[r][k]) = 0
    /\ IsTensor(fr.predicted_image_envmap)
          => /\ fr.predicted_image_envmap = Split(net.split, fr.image_latent).light
             /\ Split(net.split, fr.image_latent).scene = None
    /\ IsTensor(fr.predicted_target_envmap)
          => /\ fr.predicted_target_envmap = Split(net.split, fr.target_latent).light
             /\ AllFrom(fr.predicted_target_envmap, "target")
    /\ IsTensor(fr.swapped_latent)
          => /\ fr.swapped_latent = Assemble(net.assemble, None, fr.predicted_target_envmap)
             /\ Channels(fr.swapped_latent) = 512
             /\ AllFrom(fr.swapped_latent, "target")
    /\ pc = "assembled"
          => /\ fr.image_skip_connections # net.encode.skip_connections
             /\ Len(heap[fr.image_skip_connections]) = 10
             /\ \A k \in 1..10 : AllFrom(heap[fr.image_skip_connections][k], "image")
    /\ DecodeEntered => fr.skip_connections = fr.image_skip_connections
    /\ pc = "done"
          => /\ Len(fr.ret) = 3
             /\ IsTensor(fr.ret[1]) /\ fr.ret[1] = fr.relit_image
             /\ fr.ret[2] = Split(net.split, fr.image_latent).light
             /\ fr.ret[3] = Split(net.split, fr.target_latent).light
             /\ AllFrom(fr.ret[2], "image") /\ AllFrom(fr.ret[3], "target")
    /\ pc # "done" => fr.ret = <<>>

C12_Witness ==
    /\ pc = "done"
    /\ Len(fr.ret) = 3
    /\ net.encode.disabled_skip_connections = <<>>
    /\ Channels(fr.ret[3]) = 1536
    /\ fr.groundtruth # None
    /\ fr.target # fr.image

\* Decoder.forward is about to run a layer that consumes skip_connections.pop().
AtConsumptionPoint ==
    /\ net.status = "ok"
    /\ pc = "decoding"
    /\ DecoderProgram(net.decode)[fr.pos].pop

(* C13: in the default configuration (n_double_conv = 3, bottleneck_depth = 4,
   n = 10) and for every disabled set that is a subset of 0..9, at every
   consumption point of Decoder.forward inside SwapNet.forward: pop number k
   returns the entry of encoder position n-1-k; that entry is the placeholder
   exactly when the position is disabled, which is exactly when the layer was
   constructed without skip channels; and the channels of the layer's input
   plus the channels of the popped entry (0 for the placeholder) are the
   input channels the layer was constructed with. The layer without a pop
   (the bottleneck's encode) is fed its constructed channel count too. *)
C13_ChannelsAtConsumption ==
    /\ (net.status = "ok" /\ pc = "decoding" /\ ~DecoderProgram(net.decode)[fr.pos].pop)
          => Channels(fr.x) = DecoderProgram(net.decode)[fr.pos].cin
    /\ AtConsumptionPoint
          => LET n == get_number_of_possible_skip_connections(net.encode)
                 k == ghost.pops
                 layer == DecoderProgram(net.decode)[fr.pos]
                 with_skip == DecoderProgram(
                                  Decoder__init__(default_n_double_conv,
                                                  default_bottleneck_depth, 3, <<>>))[fr.pos]
                 stack == heap[fr.skip_connections]
                 pushed == Encoder_forward_body(net.encode, fr.image, "image").skip_connections
                 disabled == net.encode.disabled_skip_connections
                 is_disabled == \E d \in 1..Len(disabled) : disabled[d] = (n - 1) - k
             IN /\ n = 10
                /\ Len(pushed) = n
                /\ Len(stack) = n - k
                /\ stack[n - k] = (IF is_disabled THEN EMPTY_TENSOR ELSE pushed[n - k])
                /\ IsLegacyEmpty(stack[n - k]) <=> is_disabled
                /\ IsLegacyEmpty(stack[n - k]) <=> layer.cin = Channels(fr.x)
                /\ ~IsLegacyEmpty(stack[n - k])
                      => /\ layer.cin = with_skip.cin
                         /\ Channels(stack[n - k]) = with_skip.cin - Channels(fr.x)
                /\ Channels(fr.x) + Channels(stack[n - k]) = layer.cin

C13_Witness ==
    /\ AtConsumptionPoint
    /\ fr.pos = Len(DecoderProgram(net.decode))
    /\ net.encode.disabled_skip_connections = <<0, 4, 9>>
    /\ IsLegacyEmpty(heap[fr.skip_connections][1])
    /\ Channels(fr.x) = 32

\* Index i of a list of length n names 0-based position p (Python indexing).
Names(i, n, p) == i = p \/ i = p - n

\* The step is a get_skip_connections call that returns: what it may change.
GetSkipConnectionsFrame ==
    LET ref == net.encode.skip_connections
        before == heap[ref]
        after == heap'[ref]
        disabled == net.encode.disabled_skip_connections
    IN /\ fr'.image_skip_connections = ref
       /\ net' = net
       /\ Len(heap') = Len(heap)
       /\ \A r \in 1..Len(heap) : r # ref => heap'[r] = heap[r]
       /\ Len(after) = Len(before)
       /\ \A k \in 1..Len(before) :
             after[k] = IF \E d \in 1..Len(disabled) : Names(disabled[d], Len(before), k - 1)
                        THEN EMPTY_TENSOR ELSE before[k]
       /\ (\A d \in 1..Len(disabled) : 0 <= disabled[d] /\ disabled[d] < Len(before))
             => \A k \in 1..Len(before) :
                   /\ IsLegacyEmpty(after[k]) <=> \E d \in 1..Len(disabled) : disabled[d] = k - 1
                   /\ ~IsLegacyEmpty(after[k]) => after[k] = before[k]

(* C14: a get_skip_connections call that returns hands back the encoder's own
   list with exactly the positions named by the disabled indices replaced by
   the zero-size placeholder; the length of the list and every other entry,
   in its place, are unchanged, and no other list is touched. A second call on
   the same stack changes nothing and returns the same list. *)
C14_ReplacesInPlace ==
    [][/\ (pc = "image_encoded" /\ pc' = "skips_taken") => GetSkipConnectionsFrame
       /\ (pc = "skips_taken" /\ pc' = "skips_taken_again")
             => /\ GetSkipConnectionsFrame
                /\ heap' = heap
                /\ fr'.image_skip_connections = fr.image_skip_connections
       /\ pc = "skips_taken" => pc' # "failed"]_vars

C14_Witness ==
    /\ pc = "skips_taken_again"
    /\ net.encode.disabled_skip_connections = <<7, 2>>
    /\ Len(heap[fr.image_skip_connections]) = 10
    /\ \A k \in 1..10 : IsLegacyEmpty(heap[fr.image_skip_connections][k]) <=> k \in {3, 8}

\* The decoder layer consuming encoder position p of n was constructed
\* without skip channels.
BuiltWithoutSkip(p, n) ==
    LET prog == DecoderProgram(net.decode)
        with_skip == DecoderProgram(
                         Decoder__init__(net.encode.n_double_conv,
                                         net.encode.bottleneck_depth, 3, <<>>))
    IN \E m \in PopLayers(prog, (n - 1) - p) : prog[m].cin # with_skip[m].cin

(* C15: a SwapNet whose disabled list holds an index outside [0, n) never
   completes a forward pass with a skip position suppressed on one side only.
   For every configured list: if the pass returns, every index i is in
   [-n, n) and, for every position p, p is named by some index (so the
   encoder put the placeholder there) exactly when the decoder layer
   consuming p was constructed without skip channels. A list holding an index
   outside [-n, n) fails in get_skip_connections (IndexError); a list of
   indices all outside [0, n) never returns an image. *)
C15_NoOneSidedSuppression ==
    (net.status = "ok" /\ net.split # "none" /\ pc \in {"decoded", "done", "failed"})
        => LET n == get_number_of_possible_skip_connections(net.encode)
               disabled == net.encode.disabled_skip_connections
               ds == 1..Len(disabled)
           IN /\ \/ pc = "failed"
                 \/ /\ \A d \in ds : 0 - n <= disabled[d] /\ disabled[d] < n
                    /\ \A p \in 0..(n - 1) :
                          (\E d \in ds : Names(disabled[d], n, p)) <=> BuiltWithoutSkip(p, n)
              /\ (disabled # <<>> /\ \A d \in ds : disabled[d] < 0 \/ disabled[d] >= n)
                    => /\ pc = "failed"
                       /\ fr.stage \in {"idle", "image_encoded", "decoding"}
              /\ (\E d \in ds : disabled[d] < 0 - n \/ disabled[d] >= n)
                    => /\ pc = "failed"
                       /\ fr.stage \in {"idle", "image_encoded"}
                       /\ fr.stage = "image_encoded" => fr.err = "IndexError"

C15_Witness ==
    /\ net.status = "ok"
    /\ pc = "failed"
    /\ fr.stage = "decoding"
    /\ fr.err = "RuntimeError"
    /\ net.encode.disabled_skip_connections = <<0 - 1>>
    /\ net.encode.n_double_conv = 3 /\ net.encode.bottleneck_depth = 4
    /\ fr.pos = 2
    /\ \A p \in 0..9 : ~BuiltWithoutSkip(p, 10)

====
